---- MODULE Spec2Model ----
(***************************************************************************)
(* Model of the 8086 decoder/executor of src/src: the bit-pattern matcher  *)
(* (utility.rs, opcodes.rs), the register file (registers.rs) and the     *)
(* fetch-decode-execute loop with its handlers (main.rs).                  *)
(***************************************************************************)
EXTENDS Integers, Sequences, FiniteSets, TLC

\* file:    the byte buffer read from disk (never written)
\* memory:  the RegisterFile: eight rows, the flags byte and ip
\* status:  "running", or how the run ended
\* build:   whether integer overflow checks are compiled in
\* last:    the last instruction handed to a handler (the trace record)
\* steps:   how many instructions were handed to a handler
\* jumped:  whether a JNE was taken so far: "none", "forward", "back"
\* bit_trie: the BitTrie in use (OPCODE_TRIE while a program runs)
\* inserted: the patterns inserted into bit_trie so far, oldest first
\* pos:     the position of the ep02 decoder's Reader in the buffer
VARIABLES file, memory, status, build, last, steps, jumped, bit_trie, inserted, pos

vars == <<file, memory, status, build, last, steps, jumped, bit_trie, inserted, pos>>

(***************************************************************************)
(* Integer widths and casts                                                *)
(***************************************************************************)
\* `x as u8`
AsU8(x) == x % 256

\* `x as u16`
AsU16(x) == x % 65536

\* a byte widened without its sign
AsI8_zero_extends(b) == b % 256

\* `b as i8` of a byte
AsI8(b) == IF b >= 128 THEN b - 256 ELSE b

\* `x as i16` of a 16-bit value
AsI16(x) == IF (x % 65536) >= 32768 THEN (x % 65536) - 65536 ELSE x % 65536

\* `((hi as i16) << 8) | (lo as i16)`
Word16(hi, lo) == AsI16(hi * 256 + lo)

InI16(x) == x >= -32768 /\ x <= 32767

Pow2(n) == 2 ^ n

(***************************************************************************)
(* Bit-pattern matcher (utility.rs)                                        *)
(* A trie is a function from node keys <<depth, path bits>> to the value   *)
(* stored at the node ("None" when the node carries no opcode).            *)
(***************************************************************************)
NoneVal == "None"

\* BitTrie::default(): a root without value and without children
EmptyTrie == [key \in {<<0, 0>>} |-> NoneVal]

\* the top k bits of the low len bits of `bits`, as walked by insert
TopBits(bits, len, k) == (bits \div Pow2(len - k)) % Pow2(k)

\* insert that keeps the class a node already has
insert_keeps_first(trie, bits, len, val) ==
    LET path == {<<k, TopBits(bits, len, k)>> : k \in 0..len}
        leaf == <<len, TopBits(bits, len, len)>>
    IN  [key \in (DOMAIN trie) \cup path |->
            IF key \in DOMAIN trie /\ trie[key] # NoneVal THEN trie[key]
            ELSE IF key = leaf THEN val
            ELSE NoneVal]

insert(trie, bits, len, val) ==
    LET path == {<<k, TopBits(bits, len, k)>> : k \in 0..len}
        leaf == <<len, TopBits(bits, len, len)>>
    IN  [key \in (DOMAIN trie) \cup path |->
            IF key = leaf THEN val
            ELSE IF key \in DOMAIN trie THEN trie[key]
            ELSE NoneVal]

NoMatch == [val |-> NoneVal, len |-> 0]

RECURSIVE MatchFrom(_, _, _)
MatchFrom(trie, byte, k) ==
    LET key == <<k, byte \div Pow2(8 - k)>>
    IN  IF key \notin DOMAIN trie THEN NoMatch
        ELSE IF trie[key] # NoneVal THEN [val |-> trie[key], len |-> k]
        ELSE IF k = 8 THEN NoMatch
        ELSE MatchFrom(trie, byte, k + 1)

match_bits(trie, byte) == MatchFrom(trie, byte, 1)

(***************************************************************************)
(* Opcode table (opcodes.rs)                                               *)
(***************************************************************************)
\* the table with MOV immediate-to-register entered as the 3 bits 101
OpcodePatterns_short_mov == <<
    <<34, 6, "MovRmR">>, <<5, 3, "MovIR">>, <<99, 7, "MovIRm">>,
    <<81, 7, "MovAM">>, <<80, 7, "MovMA">>,
    <<0, 6, "AddRmR">>, <<32, 6, "AddIRm">>, <<2, 7, "AddIA">>,
    <<10, 6, "SubRmR">>, <<22, 7, "SubIA">>,
    <<14, 6, "CmpRmR">>, <<30, 7, "CmpIA">>,
    <<116, 8, "Je">>, <<124, 8, "Jl">>, <<126, 8, "Jle">>, <<114, 8, "Jb">>,
    <<118, 8, "Jbe">>, <<122, 8, "Jp">>, <<112, 8, "Jo">>, <<120, 8, "Js">>,
    <<117, 8, "Jne">>, <<125, 8, "Jnl">>, <<127, 8, "Jg">>, <<115, 8, "Jnb">>,
    <<119, 8, "Ja">>, <<123, 8, "Jnp">>, <<113, 8, "Jno">>, <<121, 8, "Jns">>,
    <<226, 8, "Loop">>, <<225, 8, "Loopz">>, <<224, 8, "Loopnz">>,
    <<227, 8, "Jcxz">> >>

OpcodePatterns == <<
    <<34, 6, "MovRmR">>, <<11, 4, "MovIR">>, <<99, 7, "MovIRm">>,
    <<81, 7, "MovAM">>, <<80, 7, "MovMA">>,
    <<0, 6, "AddRmR">>, <<32, 6, "AddIRm">>, <<2, 7, "AddIA">>,
    <<10, 6, "SubRmR">>, <<22, 7, "SubIA">>,
    <<14, 6, "CmpRmR">>, <<30, 7, "CmpIA">>,
    <<116, 8, "Je">>, <<124, 8, "Jl">>, <<126, 8, "Jle">>, <<114, 8, "Jb">>,
    <<118, 8, "Jbe">>, <<122, 8, "Jp">>, <<112, 8, "Jo">>, <<120, 8, "Js">>,
    <<117, 8, "Jne">>, <<125, 8, "Jnl">>, <<127, 8, "Jg">>, <<115, 8, "Jnb">>,
    <<119, 8, "Ja">>, <<123, 8, "Jnp">>, <<113, 8, "Jno">>, <<121, 8, "Jns">>,
    <<226, 8, "Loop">>, <<225, 8, "Loopz">>, <<224, 8, "Loopnz">>,
    <<227, 8, "Jcxz">> >>

RECURSIVE InsertAll(_, _, _)
InsertAll(trie, pats, i) ==
    IF i > Len(pats) THEN trie
    ELSE InsertAll(insert(trie, pats[i][1], pats[i][2], pats[i][3]), pats, i + 1)

OPCODE_TRIE == InsertAll(EmptyTrie, OpcodePatterns, 1)

\* main.rs: OPCODE_TRIE.match_bits(b0).map(|(opcode, _)| opcode)
OpcodeTable == [b \in 0..255 |-> match_bits(OPCODE_TRIE, b).val]

JumpOps == {"Je", "Jl", "Jle", "Jb", "Jbe", "Jp", "Jo", "Js", "Jne", "Jnl",
            "Jg", "Jnb", "Ja", "Jnp", "Jno", "Jns", "Loop", "Loopz",
            "Loopnz", "Jcxz"}

(***************************************************************************)
(* Register file (registers.rs)                                            *)
(***************************************************************************)
ByteRegs == {"AL", "CL", "DL", "BL", "AH", "CH", "DH", "BH"}
WordRegs == {"AX", "CX", "DX", "BX", "SP", "BP", "SI", "DI"}
Rows == {"ax", "cx", "dx", "bx", "sp", "bp", "si", "di"}

REGISTERS == << <<"AL", "CL", "DL", "BL", "AH", "CH", "DH", "BH">>,
                <<"AX", "CX", "DX", "BX", "SP", "BP", "SI", "DI">> >>

\* always Ok for index < 8 and w < 2
retrieve_register(index, w) == REGISTERS[w + 1][index + 1]

Flag == [Carry |-> 1, Zero |-> 2, Sign |-> 4, Parity |-> 8]

\* RegisterRow::new()
NewRow == [low |-> 0, high |-> 0]

\* RegisterRow::get: u16::from_le_bytes
RowGet(row) == row.low + 256 * row.high

\* from_bytes fed the big-endian bytes
RowFromU16_be(value) == [low |-> value \div 256, high |-> value % 256]

\* RegisterRow::from_bytes(value.to_le_bytes())
RowFromU16(value) == [low |-> value % 256, high |-> value \div 256]

\* RegisterFile::new()
NewRegisterFile ==
    [ax |-> NewRow, cx |-> NewRow, dx |-> NewRow, bx |-> NewRow,
     sp |-> NewRow, bp |-> NewRow, si |-> NewRow, di |-> NewRow,
     flags |-> 0, ip |-> 0]

get(m, reg) ==
    CASE reg = "AL" -> m.ax.low
      [] reg = "CL" -> m.cx.low
      [] reg = "DL" -> m.dx.low
      [] reg = "BL" -> m.bx.low
      [] reg = "AH" -> m.ax.high
      [] reg = "CH" -> m.cx.high
      [] reg = "DH" -> m.dx.high
      [] reg = "BH" -> m.bx.high
      [] reg = "AX" -> RowGet(m.ax)
      [] reg = "CX" -> RowGet(m.cx)
      [] reg = "DX" -> RowGet(m.dx)
      [] reg = "BX" -> RowGet(m.bx)
      [] reg = "SP" -> RowGet(m.sp)
      [] reg = "BP" -> RowGet(m.bp)
      [] reg = "SI" -> RowGet(m.si)
      [] reg = "DI" -> RowGet(m.di)

\* set with a byte write that stores the whole parent row
set_byte_clobbers_row(m, reg, value) ==
    CASE reg = "AL" -> [m EXCEPT !.ax = RowFromU16(AsU8(value))]
      [] reg = "CL" -> [m EXCEPT !.cx = RowFromU16(AsU8(value))]
      [] reg = "DL" -> [m EXCEPT !.dx = RowFromU16(AsU8(value))]
      [] reg = "BL" -> [m EXCEPT !.bx = RowFromU16(AsU8(value))]
      [] reg = "AH" -> [m EXCEPT !.ax = RowFromU16(256 * AsU8(value))]
      [] reg = "CH" -> [m EXCEPT !.cx = RowFromU16(256 * AsU8(value))]
      [] reg = "DH" -> [m EXCEPT !.dx = RowFromU16(256 * AsU8(value))]
      [] reg = "BH" -> [m EXCEPT !.bx = RowFromU16(256 * AsU8(value))]
      [] reg = "AX" -> [m EXCEPT !.ax = RowFromU16(value)]
      [] reg = "CX" -> [m EXCEPT !.cx = RowFromU16(value)]
      [] reg = "DX" -> [m EXCEPT !.dx = RowFromU16(value)]
      [] reg = "BX" -> [m EXCEPT !.bx = RowFromU16(value)]
      [] reg = "SP" -> [m EXCEPT !.sp = RowFromU16(value)]
      [] reg = "BP" -> [m EXCEPT !.bp = RowFromU16(value)]
      [] reg = "SI" -> [m EXCEPT !.si = RowFromU16(value)]
      [] reg = "DI" -> [m EXCEPT !.di = RowFromU16(value)]

\* value is a u16
set(m, reg, value) ==
    CASE reg = "AL" -> [m EXCEPT !.ax.low = AsU8(value)]
      [] reg = "CL" -> [m EXCEPT !.cx.low = AsU8(value)]
      [] reg = "DL" -> [m EXCEPT !.dx.low = AsU8(value)]
      [] reg = "BL" -> [m EXCEPT !.bx.low = AsU8(value)]
      [] reg = "AH" -> [m EXCEPT !.ax.high = AsU8(value)]
      [] reg = "CH" -> [m EXCEPT !.cx.high = AsU8(value)]
      [] reg = "DH" -> [m EXCEPT !.dx.high = AsU8(value)]
      [] reg = "BH" -> [m EXCEPT !.bx.high = AsU8(value)]
      [] reg = "AX" -> [m EXCEPT !.ax = RowFromU16(value)]
      [] reg = "CX" -> [m EXCEPT !.cx = RowFromU16(value)]
      [] reg = "DX" -> [m EXCEPT !.dx = RowFromU16(value)]
      [] reg = "BX" -> [m EXCEPT !.bx = RowFromU16(value)]
      [] reg = "SP" -> [m EXCEPT !.sp = RowFromU16(value)]
      [] reg = "BP" -> [m EXCEPT !.bp = RowFromU16(value)]
      [] reg = "SI" -> [m EXCEPT !.si = RowFromU16(value)]
      [] reg = "DI" -> [m EXCEPT !.di = RowFromU16(value)]

\* flags |= flag
set_flag(m, flag) ==
    [m EXCEPT !.flags = IF (m.flags \div flag) % 2 = 1 THEN m.flags
                        ELSE m.flags + flag]

\* flags &= !flag
clear_flag(m, flag) ==
    [m EXCEPT !.flags = IF (m.flags \div flag) % 2 = 1 THEN m.flags - flag
                        ELSE m.flags]

get_flag(m, flag) == (m.flags \div flag) % 2 = 1

\* set_flags_from_result that also records a borrow in Carry
set_flags_from_result_with_carry(m, result) ==
    LET m0 == IF result < 0 THEN set_flag(m, Flag.Carry)
              ELSE clear_flag(m, Flag.Carry)
        m1 == IF result = 0 THEN set_flag(m0, Flag.Zero)
              ELSE clear_flag(m0, Flag.Zero)
        m2 == IF result < 0 THEN set_flag(m1, Flag.Sign)
              ELSE clear_flag(m1, Flag.Sign)
    IN  IF result % 2 = 0 THEN set_flag(m2, Flag.Parity)
        ELSE clear_flag(m2, Flag.Parity)

\* result is an i16
set_flags_from_result(m, result) ==
    LET m1 == IF result = 0 THEN set_flag(m, Flag.Zero)
              ELSE clear_flag(m, Flag.Zero)
        m2 == IF result < 0 THEN set_flag(m1, Flag.Sign)
              ELSE clear_flag(m1, Flag.Sign)
    IN  IF result % 2 = 0 THEN set_flag(m2, Flag.Parity)
        ELSE clear_flag(m2, Flag.Parity)

\* the instruction pointer moves by n bytes; n may be a negative displacement
move_ip_by_n(m, n) == [m EXCEPT !.ip = m.ip + n]

(***************************************************************************)
(* Executor helpers (main.rs)                                              *)
(***************************************************************************)
\* outcome of a handler: the register file it leaves and whether it returned
Ok(m) == [memory |-> m, status |-> "running"]
Panic(m) == [memory |-> m, status |-> "panic"]

\* `-n` of with_sign overflows for i16::MIN when overflow checks are on
with_sign_panics(n, bld) == n = -32768 /\ bld = "debug"

\* move_data that also derives the flags from the value moved
move_data_sets_flags(dest, value, m) ==
    set_flags_from_result(set(m, dest, AsU16(value)), value)

move_data(dest, value, m) == set(m, dest, AsU16(value))

AddOps == {"AddRmR", "AddIA", "AddIRm"}
SubOps == {"SubRmR", "SubIA", "SubIRm"}
CmpOps == {"CmpRmR", "CmpIA", "CmpIRm"}

\* perform_arithmetic that leaves the flags alone for CmpRmR
perform_arithmetic_cmp_keeps_flags(op, dest, value, m, bld) ==
    LET current_value == AsI16(get(m, dest))
        exact == IF op \in AddOps THEN current_value + value
                 ELSE current_value - value
        result == AsI16(exact)
        m1 == set_flags_from_result(m, result)
    IN  IF op \notin (AddOps \cup SubOps \cup CmpOps) THEN Panic(m)
        ELSE IF ~InI16(exact) /\ bld = "debug" THEN Panic(m)
        ELSE IF op # "CmpRmR" THEN Ok(move_data(dest, result, m1))
        ELSE Ok(m)

\* value is an i16; `+`/`-` on i16 panic on overflow in a build with
\* overflow checks and wrap otherwise
perform_arithmetic(op, dest, value, m, bld) ==
    LET current_value == AsI16(get(m, dest))
        exact == IF op \in AddOps THEN current_value + value
                 ELSE current_value - value
        result == AsI16(exact)
        m1 == set_flags_from_result(m, result)
    IN  IF op \notin (AddOps \cup SubOps \cup CmpOps) THEN Panic(m)
        ELSE IF ~InI16(exact) /\ bld = "debug" THEN Panic(m)
        ELSE IF op # "CmpRmR" THEN Ok(move_data(dest, result, m1))
        ELSE Ok(m1)

(***************************************************************************)
(* Handlers (main.rs).  bytes is the gathered instruction, 1-indexed here: *)
(* bytes[k + 1] is the source's bytes[k].                                  *)
(***************************************************************************)
\* process_irm that takes every other reg value as ADD
process_irm_any_reg(bytes, size, op, m, bld) ==
    LET m0 == move_ip_by_n(m, Len(bytes))
        w == bytes[1] % 2
        reg == (bytes[2] \div 8) % 8
        mode == bytes[2] \div 64
        regormem == bytes[2] % 8
        is_arithmetic == op \in {"AddIRm", "SubIRm", "CmpIRm"}
        s == IF is_arithmetic THEN (bytes[1] \div 2) % 2 ELSE 0
        regOk == TRUE
        op2 == IF op = "AddIRm"
               THEN (CASE reg = 5 -> "SubIRm"
                       [] reg = 0 -> "AddIRm"
                       [] reg = 7 -> "CmpIRm"
                       [] OTHER -> "AddIRm")
               ELSE op
    IN  IF ~(size >= 3 /\ size <= 6) THEN Panic(m0)
        ELSE IF ~regOk THEN Panic(m0)
        ELSE CASE mode = 0 ->
                    IF ~(size = 4 \/ size = 3 \/ size = 5) THEN Panic(m0)
                    ELSE Ok(m0)
               [] mode = 1 ->
                    IF size # 4 THEN Panic(m0) ELSE Ok(m0)
               [] mode = 2 ->
                    IF ~(size = 6 \/ size = 5) THEN Panic(m0)
                    \* a MOV reads bytes[5], out of bounds when size is 5
                    ELSE IF ~is_arithmetic /\ size < 6 THEN Panic(m0)
                    ELSE IF with_sign_panics(Word16(bytes[4], bytes[3]), bld)
                    THEN Panic(m0)
                    ELSE Ok(m0)
               [] mode = 3 ->
                    IF ~(size = 3 \/ size = 4) THEN Panic(m0)
                    ELSE LET dest == retrieve_register(regormem, w)
                             value == IF s = 1 /\ w = 1 THEN AsI8(bytes[3])
                                      ELSE IF w = 0 THEN AsI8(bytes[3])
                                      ELSE Word16(bytes[4], bytes[3])
                         IN  IF is_arithmetic
                             THEN perform_arithmetic(op2, dest, value, m0, bld)
                             ELSE Ok(move_data(dest, value, m0))

process_irm(bytes, size, op, m, bld) ==
    LET m0 == move_ip_by_n(m, Len(bytes))
        w == bytes[1] % 2
        reg == (bytes[2] \div 8) % 8
        mode == bytes[2] \div 64
        regormem == bytes[2] % 8
        is_arithmetic == op \in {"AddIRm", "SubIRm", "CmpIRm"}
        s == IF is_arithmetic THEN (bytes[1] \div 2) % 2 ELSE 0
        regOk == op # "AddIRm" \/ reg \in {0, 5, 7}
        op2 == IF op = "AddIRm"
               THEN (CASE reg = 5 -> "SubIRm"
                       [] reg = 0 -> "AddIRm"
                       [] reg = 7 -> "CmpIRm"
                       [] OTHER -> "Invalid")
               ELSE op
    IN  IF ~(size >= 3 /\ size <= 6) THEN Panic(m0)
        ELSE IF ~regOk THEN Panic(m0)
        ELSE CASE mode = 0 ->
                    IF ~(size = 4 \/ size = 3 \/ size = 5) THEN Panic(m0)
                    ELSE Ok(m0)
               [] mode = 1 ->
                    IF size # 4 THEN Panic(m0) ELSE Ok(m0)
               [] mode = 2 ->
                    IF ~(size = 6 \/ size = 5) THEN Panic(m0)
                    \* a MOV reads bytes[5], out of bounds when size is 5
                    ELSE IF ~is_arithmetic /\ size < 6 THEN Panic(m0)
                    ELSE IF with_sign_panics(Word16(bytes[4], bytes[3]), bld)
                    THEN Panic(m0)
                    ELSE Ok(m0)
               [] mode = 3 ->
                    IF ~(size = 3 \/ size = 4) THEN Panic(m0)
                    ELSE LET dest == retrieve_register(regormem, w)
                             value == IF s = 1 /\ w = 1 THEN AsI8(bytes[3])
                                      ELSE IF w = 0 THEN AsI8(bytes[3])
                                      ELSE Word16(bytes[4], bytes[3])
                         IN  IF is_arithmetic
                             THEN perform_arithmetic(op2, dest, value, m0, bld)
                             ELSE Ok(move_data(dest, value, m0))

\* process_rmr with the roles of reg and rm exchanged in mode 11
process_rmr_d_swapped(bytes, size, op, m, bld) ==
    LET m0 == move_ip_by_n(m, Len(bytes))
        d == (bytes[1] \div 2) % 2
        w == bytes[1] % 2
        mode == bytes[2] \div 64
        reg == (bytes[2] \div 8) % 8
        regormem == bytes[2] % 8
        is_arithmetic == op \in {"AddRmR", "SubRmR", "CmpRmR"}
    IN  IF ~(size >= 2 /\ size <= 4) THEN Panic(m0)
        ELSE CASE mode = 0 -> Ok(m0)
               [] mode = 1 -> IF size # 3 THEN Panic(m0) ELSE Ok(m0)
               [] mode = 2 ->
                    IF size # 4 THEN Panic(m0)
                    ELSE IF with_sign_panics(Word16(bytes[4], bytes[3]), bld)
                    THEN Panic(m0)
                    ELSE Ok(m0)
               [] mode = 3 ->
                    LET source == IF d = 0 THEN retrieve_register(regormem, w)
                                  ELSE retrieve_register(reg, w)
                        destination == IF d = 0 THEN retrieve_register(reg, w)
                                       ELSE retrieve_register(regormem, w)
                    IN  IF is_arithmetic
                        THEN perform_arithmetic(op, destination,
                                                AsI16(get(m0, source)), m0, bld)
                        ELSE Ok(move_data(destination, AsI16(get(m0, source)), m0))

process_rmr(bytes, size, op, m, bld) ==
    LET m0 == move_ip_by_n(m, Len(bytes))
        d == (bytes[1] \div 2) % 2
        w == bytes[1] % 2
        mode == bytes[2] \div 64
        reg == (bytes[2] \div 8) % 8
        regormem == bytes[2] % 8
        is_arithmetic == op \in {"AddRmR", "SubRmR", "CmpRmR"}
    IN  IF ~(size >= 2 /\ size <= 4) THEN Panic(m0)
        ELSE CASE mode = 0 -> Ok(m0)
               [] mode = 1 -> IF size # 3 THEN Panic(m0) ELSE Ok(m0)
               [] mode = 2 ->
                    IF size # 4 THEN Panic(m0)
                    ELSE IF with_sign_panics(Word16(bytes[4], bytes[3]), bld)
                    THEN Panic(m0)
                    ELSE Ok(m0)
               [] mode = 3 ->
                    LET source == IF d = 1 THEN retrieve_register(regormem, w)
                                  ELSE retrieve_register(reg, w)
                        destination == IF d = 1 THEN retrieve_register(reg, w)
                                       ELSE retrieve_register(regormem, w)
                    IN  IF is_arithmetic
                        THEN perform_arithmetic(op, destination,
                                                AsI16(get(m0, source)), m0, bld)
                        ELSE Ok(move_data(destination, AsI16(get(m0, source)), m0))

\* process_mov_ma that loads AX from a memory of zeros
process_mov_ma_loads_ax(bytes, size, m) ==
    LET m0 == move_ip_by_n(m, Len(bytes))
    IN  IF size # 3 THEN Panic(m0) ELSE Ok(move_data("AX", 0, m0))

process_mov_ma(bytes, size, m) ==
    LET m0 == move_ip_by_n(m, Len(bytes))
    IN  IF size # 3 THEN Panic(m0) ELSE Ok(m0)

\* process_mov_am without the ip advance
process_mov_am_no_advance(bytes, size, m) ==
    IF size # 3 THEN Panic(m) ELSE Ok(m)

process_mov_am(bytes, size, m) ==
    LET m0 == move_ip_by_n(m, Len(bytes))
    IN  IF size # 3 THEN Panic(m0) ELSE Ok(m0)

\* process_jmp with the JNE test inverted
process_jmp_if_zero(bytes, size, op, m) ==
    LET m0 == move_ip_by_n(m, Len(bytes))
        value == AsI8(bytes[2])
    IN  IF size # 2 THEN Panic(m0)
        ELSE IF op = "Jne"
        THEN IF get_flag(m0, Flag.Zero) THEN Ok(move_ip_by_n(m0, value))
             ELSE Ok(m0)
        ELSE Panic(m0)

\* process_jmp that rejects the other jumps before it moves ip
process_jmp_panics_first(bytes, size, op, m) ==
    LET m0 == move_ip_by_n(m, Len(bytes))
        value == AsI8(bytes[2])
    IN  IF size # 2 THEN Panic(m)
        ELSE IF op = "Jne"
        THEN IF ~get_flag(m0, Flag.Zero) THEN Ok(move_ip_by_n(m0, value))
             ELSE Ok(m0)
        ELSE Panic(m)

\* process_jmp that lets the other jumps fall through
process_jmp_fallthrough(bytes, size, op, m) ==
    LET m0 == move_ip_by_n(m, Len(bytes))
        value == AsI8(bytes[2])
    IN  IF size # 2 THEN Panic(m0)
        ELSE IF op = "Jne"
        THEN IF ~get_flag(m0, Flag.Zero) THEN Ok(move_ip_by_n(m0, value))
             ELSE Ok(m0)
        ELSE Ok(m0)

\* `value as usize` of the i8 displacement, taken as the signed amount
process_jmp(bytes, size, op, m) ==
    LET m0 == move_ip_by_n(m, Len(bytes))
        value == AsI8(bytes[2])
    IN  IF size # 2 THEN Panic(m0)
        ELSE IF op = "Jne"
        THEN IF ~get_flag(m0, Flag.Zero) THEN Ok(move_ip_by_n(m0, value))
             ELSE Ok(m0)
        ELSE Panic(m0)

process_ir(bytes, size, op, m) ==
    LET m0 == move_ip_by_n(m, Len(bytes))
        is_arithmetic == op \in {"AddIA", "SubIA", "CmpIA"}
        w == IF op = "AddIA" THEN bytes[1] % 2 ELSE (bytes[1] \div 8) % 2
        reg == bytes[1] % 8
        value == IF size = 3 THEN Word16(bytes[3], bytes[2])
                 ELSE AsI8(bytes[2])
        dest == IF is_arithmetic
                THEN (IF size = 3 THEN "AX" ELSE "AL")
                ELSE retrieve_register(reg, w)
    IN  IF ~(size = 3 \/ size = 2) THEN Panic(m0)
        ELSE Ok(move_data(dest, value, m0))

(***************************************************************************)
(* Bounds and input programs                                               *)
(***************************************************************************)
\* longest curated program, in instructions
MaxInstrs == 3

\* the count of executed instructions saturates here
MaxSteps == 12

\* bytes that follow the instruction under test (displacement, immediate),
\* and are decoded as further instructions once it has executed
Tails == { <<0, 128, 1, 0>>, <<254, 255, 2, 127>> }

\* first bytes of the opcode classes that have a mode byte
ModeByteFirst ==
    {b \in 0..255 : OpcodeTable[b] \in {"MovRmR", "AddRmR", "SubRmR", "CmpRmR",
                                         "MovIRm", "AddIRm"}}

\* one instruction of every first byte, and of every mode byte where the
\* class has one, executed from the initial register file
DecodeFiles ==
    {<<b0, b1>> \o t : b0 \in ModeByteFirst, b1 \in 0..255, t \in Tails}
    \cup {<<b0>> \o t : b0 \in 0..255, t \in Tails}

\* register values loaded before an instruction under test
Vals == {0, 1, 255, 32767, 32768, 65535}

\* mov ax, a ; mov bx, b
Load(a, b) == <<184, a % 256, a \div 256, 187, b % 256, b \div 256>>

Imms == { <<1, 0>>, <<255, 127>>, <<0, 128>>, <<255, 255>> }

\* register-destination instructions: register<->register on a few register
\* pairs, immediate-to-register and immediate-to-accumulator
ExecOps ==
    {<<b0, 192 + 8 * rr[1] + rr[2]>> :
        b0 \in {b \in 0..255 : OpcodeTable[b] \in
                    {"MovRmR", "AddRmR", "SubRmR", "CmpRmR"}},
        rr \in {<<0, 3>>, <<3, 0>>, <<0, 0>>, <<4, 3>>}}
    \cup {<<b0, 192 + 8 * reg + rm>> \o imm :
        b0 \in {128, 129, 131, 198, 199}, reg \in {0, 5, 7},
        rm \in {0, 3, 4}, imm \in Imms}
    \cup {<<b0>> \o imm : b0 \in {4, 5, 44, 45, 60, 61}, imm \in Imms}

ExecFiles ==
    {Load(a, b) \o op : a \in Vals, b \in Vals, op \in ExecOps}
    \cup {Load(4660, 33023) \o <<b0, b1>> \o <<2, 0>> :
            b0 \in ModeByteFirst, b1 \in 192..255}

\* instructions of the curated programs
Chunks ==
    { <<184, 2, 0>>,        \* mov ax, 2
      <<129, 232, 0, 64>>,  \* sub ax, 16384
      <<57, 216>>,          \* cmp ax, bx
      <<117, 250>>,         \* jne -6
      <<117, 254>>,         \* jne -2
      <<117, 2>>,           \* jne +2
      <<116, 0>>,           \* je +0
      <<226, 253>>,         \* loop -3
      <<161, 16, 0>>,       \* mov ax, [16]
      <<137, 7>>,           \* mov [bx], ax
      <<255>> }             \* no opcode

RECURSIVE ProgramsOf(_)
ProgramsOf(n) ==
    IF n = 0 THEN { <<>> }
    ELSE LET shorter == ProgramsOf(n - 1)
         IN  shorter \cup {p \o c : p \in shorter, c \in Chunks}

\* the curated programs and every prefix of them (buffers that end early)
Programs ==
    {SubSeq(p, 1, n) : <<p, n>> \in
        {pn \in ProgramsOf(MaxInstrs) \X (0..(4 * MaxInstrs)) :
            pn[2] <= Len(pn[1])}}

\* instructions with a mode byte cut off after 1 to 5 bytes
TruncFiles ==
    {SubSeq(<<f0, f1, 52, 18, 5, 0>>, 1, k) :
        f0 \in {137, 129, 131, 198, 199}, f1 \in {6, 70, 134, 192}, k \in 1..5}

Files == DecodeFiles \cup ExecFiles \cup Programs \cup TruncFiles

(***************************************************************************)
(* The fetch-decode-execute loop (main.rs, main)                           *)
(***************************************************************************)
NoInstr == [op |-> NoneVal, at |-> 0, bytes |-> <<>>]

Init ==
    /\ file \in Files
    /\ memory = NewRegisterFile
    /\ status = "running"
    /\ build \in {"debug", "release"}
    /\ last = NoInstr
    /\ steps = 0
    /\ jumped = "none"
    /\ bit_trie = OPCODE_TRIE
    /\ inserted = OpcodePatterns
    /\ pos = 0

ip == memory.ip

\* `ip >= file.len()` of the offset taken as usize
AtEnd == ip < 0 \/ ip >= Len(file)

Fetching == status = "running" /\ ~AtEnd

b0 == file[ip + 1]

opcode == OpcodeTable[b0]

\* read_or_exit succeeds for the n bytes from ip on
Avail(n) == ip + n <= Len(file)

Gathered(n) == SubSeq(file, ip + 1, ip + n)

\* read_or_exit found the end of the buffer
Truncated ==
    /\ status' = "truncated"
    /\ UNCHANGED <<file, memory, build, last, steps, jumped, bit_trie, inserted, pos>>

\* the handler ran on the n gathered bytes and left `out`
Handled(n, out) ==
    /\ memory' = out.memory
    /\ status' = out.status
    /\ last' = [op |-> opcode, at |-> ip, bytes |-> Gathered(n)]
    /\ steps' = IF steps < MaxSteps THEN steps + 1 ELSE steps
    /\ jumped' = IF opcode = "Jne" /\ ~get_flag(memory, Flag.Zero)
                 THEN (IF AsI8(file[ip + 2]) < 0 \/ jumped = "back"
                       THEN "back" ELSE "forward")
                 ELSE jumped
    /\ UNCHANGED <<file, build, bit_trie, inserted, pos>>

\* instruction lengths gathered by the arms of main
\* the MovIR arm reading w from bit 0
MovIRLen_w_bit0(f0) == 1 + (f0 % 2) + 1

MovIRLen(f0) == 1 + ((f0 \div 8) % 2) + 1

MovIRmLen(f0, f1) ==
    LET w == f0 % 2
        mode == f1 \div 64
        displacement_registers == IF mode = 3 THEN 0 ELSE mode
    IN  2 + displacement_registers + (w + 1)

ArithIRmLen(f0, f1) ==
    LET w == f0 % 2
        s == (f0 \div 2) % 2
        regormem == f1 % 8
        mode == f1 \div 64
        displacement_registers ==
            IF mode = 3 THEN 0 ELSE IF regormem = 6 THEN 2 ELSE mode
    IN  2 + displacement_registers + (w + 1 - s)

\* the accumulator arm gathering the first byte only
ArithIALen_first_byte_only(f0) == 1

ArithIALen(f0) == 1 + (f0 % 2) + 1

\* the register/memory arm without the direct-address case
RmRLen_no_direct(f0, f1) ==
    LET mode == f1 \div 64
        displacement_registers == IF mode = 3 THEN 0 ELSE mode
    IN  2 + displacement_registers

RmRLen(f0, f1) ==
    LET mode == f1 \div 64
        displacement_registers ==
            IF mode = 3 THEN 0
            ELSE IF mode = 0 /\ (f1 % 8) = 6 THEN 2 ELSE mode
    IN  2 + displacement_registers

Halt ==
    /\ status = "running"
    /\ AtEnd
    /\ status' = "done"
    /\ UNCHANGED <<file, memory, build, last, steps, jumped, bit_trie, inserted, pos>>

\* an unknown first byte skipped, the loop going on with the next byte
UnknownOpcode_skips ==
    /\ Fetching
    /\ opcode = NoneVal
    /\ memory' = move_ip_by_n(memory, 1)
    /\ UNCHANGED <<file, status, build, last, steps, jumped, bit_trie, inserted, pos>>

UnknownOpcode ==
    /\ Fetching
    /\ opcode = NoneVal
    /\ status' = "unknown_opcode"
    /\ UNCHANGED <<file, memory, build, last, steps, jumped, bit_trie, inserted, pos>>

StepMovMA ==
    /\ Fetching
    /\ opcode = "MovMA"
    /\ IF ~Avail(3) THEN Truncated
       ELSE Handled(3, process_mov_ma(Gathered(3), 3, memory))

StepMovAM ==
    /\ Fetching
    /\ opcode = "MovAM"
    /\ IF ~Avail(3) THEN Truncated
       ELSE Handled(3, process_mov_am(Gathered(3), 3, memory))

StepMovIR ==
    /\ Fetching
    /\ opcode = "MovIR"
    /\ LET n == MovIRLen(b0)
       IN  IF ~Avail(n) THEN Truncated
           ELSE Handled(n, process_ir(Gathered(n), n, "MovIR", memory))

StepMovIRm ==
    /\ Fetching
    /\ opcode = "MovIRm"
    /\ IF ~Avail(2) THEN Truncated
       ELSE LET n == MovIRmLen(b0, file[ip + 2])
            IN  IF ~Avail(n) THEN Truncated
                ELSE Handled(n, process_irm(Gathered(n), n, "MovIRm",
                                            memory, build))

StepArithIRm ==
    /\ Fetching
    /\ opcode \in {"AddIRm", "SubIRm", "CmpIRm"}
    /\ IF ~Avail(2) THEN Truncated
       ELSE LET n == ArithIRmLen(b0, file[ip + 2])
            IN  IF ~Avail(n) THEN Truncated
                ELSE Handled(n, process_irm(Gathered(n), n, opcode,
                                            memory, build))

StepArithIA ==
    /\ Fetching
    /\ opcode \in {"AddIA", "SubIA", "CmpIA"}
    /\ LET n == ArithIALen(b0)
       IN  IF ~Avail(n) THEN Truncated
           ELSE Handled(n, process_ir(Gathered(n), n, opcode, memory))

StepRmR ==
    /\ Fetching
    /\ opcode \in {"SubRmR", "AddRmR", "CmpRmR", "MovRmR"}
    /\ IF ~Avail(2) THEN Truncated
       ELSE LET n == RmRLen(b0, file[ip + 2])
            IN  IF ~Avail(n) THEN Truncated
                ELSE Handled(n, process_rmr(Gathered(n), n, opcode,
                                            memory, build))

StepJmp ==
    /\ Fetching
    /\ opcode \in JumpOps
    /\ IF ~Avail(2) THEN Truncated
       ELSE Handled(2, process_jmp(Gathered(2), 2, opcode, memory))

Next ==
    \/ Halt
    \/ UnknownOpcode
    \/ StepMovMA
    \/ StepMovAM
    \/ StepMovIR
    \/ StepMovIRm
    \/ StepArithIRm
    \/ StepArithIA
    \/ StepRmR
    \/ StepJmp

Spec == Init /\ [][Next]_vars

TypeOK ==
    /\ jumped \in {"none", "forward", "back"}
    /\ status \in {"running", "done", "unknown_opcode", "truncated", "panic"}
    /\ steps \in 0..MaxSteps
    /\ memory.flags \in 0..255
    /\ \A r \in WordRegs : get(memory, r) \in 0..65535

(***************************************************************************)
(* The register file taken alone: set calls on a fresh RegisterFile        *)
(***************************************************************************)
\* number of set calls in a row
MaxSets == 2

SetVals == {0, 4660, 43981, 65535}

InitRF ==
    /\ file = <<>>
    /\ memory = NewRegisterFile
    /\ status = "running"
    /\ build = "debug"
    /\ last = NoInstr
    /\ steps = 0
    /\ jumped = "none"
    /\ bit_trie = OPCODE_TRIE
    /\ inserted = OpcodePatterns
    /\ pos = 0

SetReg(reg, value) ==
    /\ steps < MaxSets
    /\ memory' = set(memory, reg, value)
    /\ last' = [op |-> "set", reg |-> reg, value |-> value]
    /\ steps' = steps + 1
    /\ UNCHANGED <<file, status, build, jumped, bit_trie, inserted, pos>>

NextRF == \E reg \in ByteRegs \cup WordRegs, value \in SetVals : SetReg(reg, value)

SpecRF == InitRF /\ [][NextRF]_vars

(***************************************************************************)
(* Claims about the register file, checked under SpecRF                    *)
(***************************************************************************)
LowOf == [AX |-> "AL", CX |-> "CL", DX |-> "DL", BX |-> "BL"]
HighOf == [AX |-> "AH", CX |-> "CH", DX |-> "DH", BX |-> "BH"]
SplitRegs == {"AX", "CX", "DX", "BX"}

\* C1: set on a byte register with a 16-bit value v leaves that register
\* reading v mod 256 and changes nothing else: every other byte register
\* (the sibling half included), SP, BP, SI, DI, the flags and ip keep their
\* values; set(AL, a) followed by set(AH, b) leaves AX = (b mod 256) * 256 +
\* (a mod 256).
C1_ByteSetTouchesOnlyItsHalf ==
    [][ (last'.op = "set" /\ last'.reg \in ByteRegs) =>
          /\ get(memory', last'.reg) = last'.value % 256
          /\ \A q \in ByteRegs \ {last'.reg} : get(memory', q) = get(memory, q)
          /\ \A q \in {"SP", "BP", "SI", "DI"} : get(memory', q) = get(memory, q)
          /\ memory'.flags = memory.flags
          /\ memory'.ip = memory.ip
          /\ (last.op = "set" /\ last.reg = "AL" /\ last'.reg = "AH" /\ steps' > steps) =>
                get(memory', "AX") = (last'.value % 256) * 256 + (last.value % 256)
      ]_vars

\* set(AL, 0x1234) then set(AH, 0xABCD) was executed: AX = 0xCD34
C1_Witness ==
    /\ last.op = "set" /\ last.reg = "AH" /\ last.value = 43981
    /\ steps = 2
    /\ get(memory, "AL") = 52
    /\ get(memory, "AX") = 52532

\* C2: after set(R, v) on a word register, get(R) = v, and for AX, CX, DX,
\* BX the low byte register reads v mod 256 and the high one v div 256,
\* whatever R held before; in every state each of AX, CX, DX, BX reads
\* high * 256 + low.
C2_WordSetReplacesBothHalves ==
    /\ [](\A r \in SplitRegs :
            get(memory, r) = get(memory, HighOf[r]) * 256 + get(memory, LowOf[r]))
    /\ [][ (last'.op = "set" /\ last'.reg \in WordRegs /\ steps' > steps) =>
             /\ get(memory', last'.reg) = last'.value
             /\ last'.reg \in SplitRegs =>
                   /\ get(memory', LowOf[last'.reg]) = last'.value % 256
                   /\ get(memory', HighOf[last'.reg]) = last'.value \div 256
         ]_vars

\* set(AX, 0xABCD) was executed over an AX that held another non-zero value
C2_Witness ==
    /\ last.op = "set" /\ last.reg = "AX" /\ last.value = 43981
    /\ steps = 2
    /\ get(memory, "AL") = 205
    /\ get(memory, "AH") = 171
    /\ \A q \in WordRegs \ {"AX"} : get(memory, q) = 0

(***************************************************************************)
(* Claims about the loop and its handlers, checked under Spec              *)
(***************************************************************************)
ModOf(b) == b \div 64
RegOf(b) == (b \div 8) % 8
RmOf(b) == b % 8

\* this step hands the instruction at ip, of a class in ops, to its handler
Executed(ops) ==
    /\ Fetching
    /\ opcode \in ops
    /\ status' # "truncated"
    /\ last'.at = ip

RegistersUnchanged == \A r \in WordRegs : get(memory', r) = get(memory, r)

RmROps == {"MovRmR", "AddRmR", "SubRmR", "CmpRmR"}

\* displacement bytes of a mode byte by the 8086 rule
DispBytes(b1) ==
    IF ModOf(b1) = 3 THEN 0
    ELSE IF ModOf(b1) = 0 /\ RmOf(b1) = 6 THEN 2
    ELSE ModOf(b1)

\* immediate bytes of a class with a mode byte
ImmBytes(op, f0) ==
    CASE op \in RmROps -> 0
      [] op = "MovIRm" -> (f0 % 2) + 1
      [] op = "AddIRm" -> (f0 % 2) + 1 - ((f0 \div 2) % 2)

\* C3: CMP with a register destination (CmpRmR with mod=11, 100000xx with
\* reg=111 and mod=11, CmpIA) leaves all eight word registers as they were.
C3_CmpLeavesRegisters ==
    [][ (\/ Executed({"CmpRmR"}) /\ ModOf(file[ip + 2]) = 3
         \/ Executed({"AddIRm"}) /\ ModOf(file[ip + 2]) = 3
                                 /\ RegOf(file[ip + 2]) = 7
         \/ Executed({"CmpIA"}))
        => RegistersUnchanged ]_vars

\* C4: AddIA / SubIA leave the accumulator (AX when w=1, AL when w=0) at
\* its previous value plus / minus the immediate, and Zero, Sign and Parity
\* as computed from that result.
C4_AccumulatorArithmetic ==
    [][ Executed({"AddIA", "SubIA"}) =>
          LET w == b0 % 2
              acc == IF w = 1 THEN "AX" ELSE "AL"
              width == IF w = 1 THEN 65536 ELSE 256
              imm == IF w = 1 THEN file[ip + 3] * 256 + file[ip + 2]
                     ELSE file[ip + 2]
              old == get(memory, acc)
              res == IF opcode = "AddIA" THEN (old + imm) % width
                     ELSE (old - imm) % width
          IN  /\ get(memory', acc) = res
              /\ get_flag(memory', Flag.Zero) <=> (res = 0)
              /\ get_flag(memory', Flag.Sign) <=> (res >= width \div 2)
              /\ get_flag(memory', Flag.Parity) <=> (res % 2 = 0)
      ]_vars

\* C5: a conditional jump or loop other than JNE advances ip by 2, changes
\* no register or flag, and the run continues with the next instruction.
C5_OtherJumpsAreNoOps ==
    [][ Executed(JumpOps \ {"Jne"}) =>
          /\ memory'.ip = ip + 2
          /\ RegistersUnchanged
          /\ memory'.flags = memory.flags
          /\ status' = "running" ]_vars

\* C5 as amended: a conditional jump or loop other than JNE advances ip by
\* 2, changes no register or flag, never takes the branch, and the run stops
\* there with a panic.
C5_OtherJumpsStopTheRun ==
    [][ Executed(JumpOps \ {"Jne"}) =>
          /\ memory'.ip = ip + 2
          /\ RegistersUnchanged
          /\ memory'.flags = memory.flags
          /\ status' = "panic" ]_vars

\* a LOOP with displacement -3 was handed to process_jmp after another
\* instruction, and the run is over with ip just behind it
C5_Witness ==
    /\ last.op = "Loop" /\ last.bytes = <<226, 253>>
    /\ last.at > 0
    /\ memory.ip = last.at + 2
    /\ status = "panic"

\* C6: a JNE at offset p with signed displacement d leaves ip = p + 2 + d
\* when Zero is clear and ip = p + 2 when Zero is set; registers and flags
\* are unchanged.
C6_JneMovesIp ==
    [][ Executed({"Jne"}) =>
          LET d == IF file[ip + 2] >= 128 THEN file[ip + 2] - 256
                   ELSE file[ip + 2]
          IN  /\ memory'.ip = IF (memory.flags \div 2) % 2 = 0
                              THEN ip + 2 + d ELSE ip + 2
              /\ RegistersUnchanged
              /\ memory'.flags = memory.flags
              /\ status' = "running" ]_vars

\* a JNE with displacement -6 behind a SUB that left Zero clear was taken
C6_Witness ==
    /\ last.op = "Jne" /\ last.bytes = <<117, 250>>
    /\ last.at = 4
    /\ memory.ip = 0
    /\ ~get_flag(memory, Flag.Zero)
    /\ get(memory, "AX") = 49152

\* C7: the number of executed instructions is bounded by the buffer length
\* (and so the loop stops for every buffer).
C7_StepsBoundedByLength == steps <= Len(file)

\* C7 as amended: as long as no JNE was taken with a negative displacement,
\* every executed instruction has moved ip forward by at least 2, so at most
\* Len(file) instructions were executed; the loop has ended with "done" only
\* with ip outside the buffer.
C7_ForwardRunsAreBounded ==
    /\ jumped # "back" => (2 * steps <= memory.ip /\ steps <= Len(file))
    /\ status = "done" => AtEnd

\* three instructions ran without a backward jump and the loop ended
C7_Witness ==
    /\ status = "done"
    /\ jumped = "forward"
    /\ steps = 3
    /\ memory.ip = Len(file)

\* C8: with mod=00 and rm=110 every class that has a mode byte gathers
\* exactly 2 displacement bytes.
C8_DirectAddressTakesTwoBytes ==
    [][ (/\ Executed(RmROps \cup {"MovIRm", "AddIRm"})
         /\ ModOf(file[ip + 2]) = 0
         /\ RmOf(file[ip + 2]) = 6)
        => Len(last'.bytes) = 2 + 2 + ImmBytes(opcode, b0) ]_vars

\* C9: an immediate-to-register/memory instruction gathers 2 + D + I bytes,
\* D by the mod/rm rule and I = w + 1 - s (ADD/SUB/CMP) or w + 1 (MOV), and
\* ip advances by that much.
C9_ImmediateFormLength ==
    [][ Executed({"MovIRm", "AddIRm"}) =>
          LET n == 2 + DispBytes(file[ip + 2]) + ImmBytes(opcode, b0)
          IN  /\ Len(last'.bytes) = n
              /\ memory'.ip = ip + n ]_vars

\* C10: a register/memory<->register instruction gathers 2 + D bytes, D = 0
\* for mod=11, 2 for mod=00 with rm=110 and mod otherwise, and ip advances
\* by exactly that amount.
C10_RmRLength ==
    [][ Executed(RmROps) =>
          LET n == 2 + DispBytes(file[ip + 2])
          IN  /\ Len(last'.bytes) = n
              /\ memory'.ip = ip + n ]_vars

\* a direct-address MOV (mod=00, rm=110) was executed as 4 bytes
C10_Witness ==
    /\ last.op = "MovRmR"
    /\ Len(last.bytes) = 4
    /\ ModOf(last.bytes[2]) = 0 /\ RmOf(last.bytes[2]) = 6
    /\ memory.ip = last.at + 4

AllOps == RmROps \cup JumpOps \cup
          {"MovIR", "MovIRm", "MovAM", "MovMA", "AddIRm", "AddIA", "SubIA", "CmpIA"}

\* C11: the classes without a mode byte have a length fixed by the first
\* byte: MOV immediate-to-register 2 + w with w = bit 3, ADD/SUB/CMP
\* immediate-to-accumulator 2 + w with w = bit 0, MOV accumulator<->memory
\* 3, every conditional jump or loop 2.
C11_LengthFromFirstByte ==
    [][ /\ Executed({"MovIR"}) =>
             /\ Len(last'.bytes) = 2 + ((b0 \div 8) % 2)
             /\ memory'.ip = ip + 2 + ((b0 \div 8) % 2)
        /\ Executed({"AddIA", "SubIA", "CmpIA"}) =>
             /\ Len(last'.bytes) = 2 + (b0 % 2)
             /\ memory'.ip = ip + 2 + (b0 % 2)
        /\ Executed({"MovAM", "MovMA"}) =>
             /\ Len(last'.bytes) = 3
             /\ memory'.ip = ip + 3
        /\ Executed(JumpOps) => Len(last'.bytes) = 2
      ]_vars

\* mov bx, imm16 (first byte BB: bit 3 set, bit 0 set) was executed as 3
\* bytes, and before it a 3-byte mov ax, imm16 (B8: bit 0 clear)
C11_Witness ==
    /\ last.op = "MovIR" /\ last.bytes[1] = 187
    /\ Len(last.bytes) = 3
    /\ last.at = 3
    /\ memory.ip = 6

\* C12: every instruction handed to its handler advances ip by the number
\* of bytes gathered, before any other effect: a handler that panics has
\* moved ip and changed no register or flag, a taken JNE adds its
\* displacement to the advanced ip, and every other instruction leaves
\* ip = ip before + length.
C12_IpAdvancesFirst ==
    [][ Executed(AllOps) =>
          LET n == Len(last'.bytes)
              taken == opcode = "Jne" /\ ~get_flag(memory, Flag.Zero)
          IN  /\ last'.bytes = SubSeq(file, ip + 1, ip + n)
              /\ ~taken => memory'.ip = ip + n
              /\ taken => memory'.ip = ip + n + AsI8(file[ip + 2])
              /\ status' = "panic" =>
                    /\ memory'.ip = ip + n
                    /\ RegistersUnchanged
                    /\ memory'.flags = memory.flags
      ]_vars

\* add ax, bx overflowed with overflow checks on: the handler stopped with
\* ip behind the instruction and AX as loaded
C12_Witness ==
    /\ status = "panic"
    /\ last.op = "AddRmR" /\ last.at = 6
    /\ memory.ip = 8
    /\ get(memory, "AX") = 32767
    /\ get(memory, "BX") = 1

\* operands of a register-form arithmetic instruction at ip, as the 8086
\* encodes them: d=1 makes reg the destination, d=0 makes rm the
\* destination; the immediate form has rm as destination and an immediate
\* that is a sign-extended byte unless s=0 and w=1 (s is bit 1, where the
\* RmR form has d)
IsRmRForm == opcode \in RmROps
OperandW == b0 % 2
OperandD == (b0 \div 2) % 2
DestReg ==
    IF IsRmRForm /\ OperandD = 1
    THEN retrieve_register(RegOf(file[ip + 2]), OperandW)
    ELSE retrieve_register(RmOf(file[ip + 2]), OperandW)
SrcReg ==
    IF OperandD = 1 THEN retrieve_register(RmOf(file[ip + 2]), OperandW)
    ELSE retrieve_register(RegOf(file[ip + 2]), OperandW)
ImmOperand ==
    IF OperandW = 1 /\ OperandD = 0
    THEN AsI16(Word16(file[ip + 4], file[ip + 3]))
    ELSE AsI8(file[ip + 3])
SrcValue == IF IsRmRForm THEN AsI16(get(memory, SrcReg)) ELSE ImmOperand
ParentWord(r) ==
    IF r \in WordRegs THEN r
    ELSE CHOOSE x \in SplitRegs : LowOf[x] = r \/ HighOf[x] = r

SubRegisterForm ==
    /\ Executed({"SubRmR", "AddIRm"})
    /\ ModOf(file[ip + 2]) = 3
    /\ opcode = "AddIRm" => RegOf(file[ip + 2]) = 5

AddRegisterForm ==
    /\ Executed({"AddRmR", "AddIRm"})
    /\ ModOf(file[ip + 2]) = 3
    /\ opcode = "AddIRm" => RegOf(file[ip + 2]) = 0

\* C13: SUB a, b on 16-bit operands in a register form (SubRmR with mod=11,
\* 100000sw with reg=101 and mod=11) completes, and leaves Zero iff a = b,
\* Sign iff the 16-bit wrapped difference is negative, Parity iff that
\* difference is even, whatever the true difference.
C13_SubFlagsWrap ==
    [][ (SubRegisterForm /\ OperandW = 1) =>
          LET a == AsI16(get(memory, DestReg))
              b == SrcValue
              diff == AsI16(a - b)
          IN  /\ status' = "running"
              /\ get_flag(memory', Flag.Zero) <=> (a = b)
              /\ get_flag(memory', Flag.Sign) <=> (diff < 0)
              /\ get_flag(memory', Flag.Parity) <=> (diff % 2 = 0)
      ]_vars

\* C14: ADD and SUB with a register destination (RmR form with mod=11,
\* 100000sw with reg=000 or reg=101 and mod=11) leave the destination at
\* (old destination +/- source) modulo 2^16 or 2^8, the source register
\* unchanged when it is another register, and every register outside the
\* destination's parent word unchanged.
C14_AddSubResult ==
    [][ (AddRegisterForm \/ SubRegisterForm) =>
          LET width == IF OperandW = 1 THEN 65536 ELSE 256
              old == get(memory, DestReg)
              res == IF AddRegisterForm THEN (old + SrcValue) % width
                     ELSE (old - SrcValue) % width
          IN  /\ IsRmRForm \/ Len(last'.bytes) > 2
              /\ get(memory', DestReg) = res
              /\ (IsRmRForm /\ SrcReg # DestReg /\ ParentWord(SrcReg) # ParentWord(DestReg))
                    => get(memory', SrcReg) = get(memory, SrcReg)
              /\ \A r \in WordRegs \ {ParentWord(DestReg)} :
                    get(memory', r) = get(memory, r)
      ]_vars

\* the gathered bytes of a CMP re-encoded as the SUB of the same form
SubEncoding(bytes) ==
    IF OpcodeTable[bytes[1]] = "AddIRm" THEN [bytes EXCEPT ![2] = @ - 16]
    ELSE [bytes EXCEPT ![1] = @ - 16]

FlagsAfterSub(bytes) ==
    LET sub == SubEncoding(bytes)
        op == OpcodeTable[sub[1]]
    IN  CASE op = "SubRmR" ->
               process_rmr(sub, Len(sub), op, memory, build).memory.flags
          [] op = "AddIRm" ->
               process_irm(sub, Len(sub), op, memory, build).memory.flags
          [] op = "SubIA" ->
               process_ir(sub, Len(sub), op, memory).memory.flags

\* C15: CMP leaves the flags byte exactly as SUB of the same form with the
\* same operands would leave it from the same state, for CmpRmR, for
\* 100000sw with reg=111 and for CmpIA.
C15_CmpFlagsAsSub ==
    [][ (\/ Executed({"CmpRmR"})
         \/ Executed({"AddIRm"}) /\ RegOf(file[ip + 2]) = 7
         \/ Executed({"CmpIA"}))
        => memory'.flags = FlagsAfterSub(last'.bytes)
      ]_vars

\* a register-to-register CMP ran on unequal operands, the run goes on and
\* Sign is set as SUB would set it
C15_Witness ==
    /\ last.op = "CmpRmR"
    /\ status = "running"
    /\ get_flag(memory, Flag.Sign)
    /\ ~get_flag(memory, Flag.Zero)

\* destination and source value of a MOV with a register destination, as
\* the 8086 encodes them
MovDest ==
    IF opcode = "MovIR"
    THEN retrieve_register(b0 % 8, (b0 \div 8) % 2)
    ELSE DestReg
MovSource ==
    CASE opcode = "MovIR" ->
           IF (b0 \div 8) % 2 = 1 THEN file[ip + 3] * 256 + file[ip + 2]
           ELSE file[ip + 2]
      [] opcode = "MovIRm" ->
           IF OperandW = 1 THEN file[ip + 4] * 256 + file[ip + 3]
           ELSE file[ip + 3]
      [] opcode = "MovRmR" -> get(memory, SrcReg)

\* C16: MOV with a register destination (MovRmR with mod=11, MovIR, MovIRm
\* with mod=11) leaves the destination equal to the source register's
\* prior value or to the immediate, reduced to 8 bits for a byte
\* destination, and leaves the flags byte as it was.
C16_MovCopiesAndKeepsFlags ==
    [][ (\/ Executed({"MovIR"})
         \/ Executed({"MovRmR", "MovIRm"}) /\ ModOf(file[ip + 2]) = 3)
        => /\ status' = "running"
           /\ get(memory', MovDest) =
                 IF MovDest \in ByteRegs THEN MovSource % 256 ELSE MovSource
           /\ memory'.flags = memory.flags
      ]_vars

\* mov ax, 2 ran after an instruction that had set Sign, and Sign is still
\* set
C16_Witness ==
    /\ last.op = "MovIR" /\ last.at > 0
    /\ status = "running"
    /\ get(memory, "AX") = 2
    /\ get_flag(memory, Flag.Sign)

\* bytes of the instruction at ip by the 8086 encoding; a class with a
\* mode byte needs at least that byte
InstrLen ==
    CASE opcode \in RmROps \cup {"MovIRm", "AddIRm"} ->
           IF ~Avail(2) THEN 2
           ELSE 2 + DispBytes(file[ip + 2]) + ImmBytes(opcode, b0)
      [] opcode = "MovIR" -> 2 + ((b0 \div 8) % 2)
      [] opcode \in {"AddIA", "SubIA", "CmpIA"} -> 2 + (b0 % 2)
      [] opcode \in {"MovAM", "MovMA"} -> 3
      [] opcode \in JumpOps -> 2

\* C17: when the buffer ends before the last byte of the instruction at
\* ip, the run stops as truncated and registers, flags and ip are what
\* they were before the fetch.
C17_TruncatedStopsCleanly ==
    [][ (Fetching /\ opcode # NoneVal /\ ~Avail(InstrLen))
        => /\ status' = "truncated"
           /\ memory' = memory
      ]_vars

\* no pattern of the opcode table is a prefix of the byte
NoPatternMatches(byte) ==
    \A i \in 1..Len(OpcodePatterns) :
        byte \div Pow2(8 - OpcodePatterns[i][2]) # OpcodePatterns[i][1]

\* C18: when the byte at ip matches no pattern of the opcode table the run
\* ends there: registers, flags and ip are unchanged by the failing fetch,
\* no instruction is recorded for it, and nothing is decoded or executed
\* afterwards.
C18_UnknownOpcodeStopsTheRun ==
    [][ /\ (Fetching /\ NoPatternMatches(b0)) =>
              /\ status' = "unknown_opcode"
              /\ UNCHANGED <<memory, last, steps, jumped>>
        /\ status = "unknown_opcode" => UNCHANGED vars
      ]_vars

\* mov ax, 2 ran, then the byte FF at ip = 3 stopped the run with ip still 3
C18_Witness ==
    /\ status = "unknown_opcode"
    /\ last.op = "MovIR" /\ last.at = 0
    /\ memory.ip = 3
    /\ file[4] = 255
    /\ Len(file) > 4
    /\ get(memory, "AX") = 2

(***************************************************************************)
(* A BitTrie on its own (utility.rs): patterns are inserted into an empty  *)
(* trie and bytes are matched against it.                                  *)
(***************************************************************************)
MaxInserts == 3

\* <<bits, len>>: 1, 10, 1010, 1011, 10110000, 10110101 -- patterns that
\* are prefixes of one another and patterns that are not
TriePatterns == {<<1, 1>>, <<2, 2>>, <<10, 4>>, <<11, 4>>, <<176, 8>>, <<181, 8>>}

TrieClasses == {"MovIR", "Je"}

MatchBytes == {0, 128, 160, 176, 181, 191, 255}

InitTrie ==
    /\ file = <<>>
    /\ memory = NewRegisterFile
    /\ status = "running"
    /\ build = "debug"
    /\ last = NoInstr
    /\ steps = 0
    /\ jumped = "none"
    /\ bit_trie = EmptyTrie
    /\ inserted = <<>>
    /\ pos = 0

TrieInsert(bits, len, val) ==
    /\ steps < MaxInserts
    /\ bit_trie' = insert(bit_trie, bits, len, val)
    /\ inserted' = Append(inserted, <<bits, len, val>>)
    /\ last' = [op |-> "insert", byte |-> bits, result |-> NoMatch]
    /\ steps' = steps + 1
    /\ UNCHANGED <<file, memory, status, build, jumped, pos>>

TrieMatch(byte) ==
    /\ last' = [op |-> "match_bits", byte |-> byte,
                result |-> match_bits(bit_trie, byte)]
    /\ UNCHANGED <<file, memory, status, build, steps, jumped, bit_trie, inserted, pos>>

NextTrie ==
    \/ \E p \in TriePatterns, val \in TrieClasses : TrieInsert(p[1], p[2], val)
    \/ \E byte \in MatchBytes : TrieMatch(byte)

SpecTrie == InitTrie /\ [][NextTrie]_vars

\* the inserted pattern p = <<bits, len, class>> is a prefix of the byte's
\* bits read most-significant bit first
IsPrefix(p, byte) == byte \div Pow2(8 - p[2]) = p[1] % Pow2(p[2])

PrefixesOf(byte) == {i \in 1..Len(inserted) : IsPrefix(inserted[i], byte)}

\* the latest insertion of the same bits and length as insertion i
LatestOf(i) ==
    CHOOSE j \in 1..Len(inserted) :
        /\ inserted[j][2] = inserted[i][2]
        /\ inserted[j][1] % Pow2(inserted[j][2]) = inserted[i][1] % Pow2(inserted[i][2])
        /\ \A k \in 1..Len(inserted) :
              (/\ inserted[k][2] = inserted[i][2]
               /\ inserted[k][1] % Pow2(inserted[k][2]) = inserted[i][1] % Pow2(inserted[i][2]))
              => k <= j

\* C19: match_bits(byte) returns the class and length of the longest
\* inserted pattern that is a prefix of the byte, also when a shorter
\* inserted pattern is a prefix of it too.
C19_LongestPrefixWins ==
    (last.op = "match_bits" /\ PrefixesOf(last.byte) # {}) =>
        LET longest == CHOOSE i \in PrefixesOf(last.byte) :
                          \A j \in PrefixesOf(last.byte) :
                              inserted[j][2] <= inserted[i][2]
        IN  last.result = [val |-> inserted[LatestOf(longest)][3],
                           len |-> inserted[longest][2]]

\* C20: match_bits(byte) returns Some(class, n) exactly when some inserted
\* pattern is a prefix of the byte; then n is in 1..8, the top n bits of
\* the byte are an inserted n-bit pattern and class is the class inserted
\* last for that pattern; otherwise it returns None.
C20_SomeIffPrefixInserted ==
    last.op = "match_bits" =>
        /\ (last.result # NoMatch) <=> (PrefixesOf(last.byte) # {})
        /\ last.result # NoMatch =>
              /\ last.result.len \in 1..8
              /\ \E i \in PrefixesOf(last.byte) :
                    /\ inserted[i][2] = last.result.len
                    /\ last.result.val = inserted[LatestOf(i)][3]

\* 1011 was inserted as MovIR and then again as Je, and the byte 10110000
\* matched it: Je with 4 bits
C20_Witness ==
    /\ last.op = "match_bits" /\ last.byte = 176
    /\ inserted = << <<11, 4, "MovIR">>, <<11, 4, "Je">> >>
    /\ last.result = [val |-> "Je", len |-> 4]

\* C21: in every reachable state Carry is clear and bits 4 to 7 of the
\* flags byte are zero; a step that changes the flags byte is an ADD, SUB
\* or CMP (register/memory<->register or immediate-to-register/memory).
C21_OnlyZeroSignParity ==
    /\ [](memory.flags % 2 = 0 /\ memory.flags \div 16 = 0)
    /\ [][ memory'.flags # memory.flags =>
              /\ Fetching
              /\ opcode \in {"AddRmR", "SubRmR", "CmpRmR", "AddIRm"}
              /\ last'.at = ip
         ]_vars

\* sub ax, 16384 from AX = 2 left Sign and Parity set and nothing else
C21_Witness ==
    /\ last.op = "AddIRm"
    /\ memory.flags = Flag.Sign + Flag.Parity
    /\ get(memory, "AX") = 49154

\* the register file the s=0 encoding with immediate bytes (b, ext) leaves,
\* run from the current state in place of the 3-byte s=1 instruction at ip
AfterWideEncoding ==
    LET b == file[ip + 3]
        ext == IF b >= 128 THEN 255 ELSE 0
    IN  process_irm(<<b0 - 2, file[ip + 2], b, ext>>, 4, "AddIRm",
                    memory, build)

\* C22: for 100000sw with mod=11 and w=1, the s=1 encoding with immediate
\* byte b leaves the same registers, the same flags and the same outcome
\* as the s=0 encoding with immediate bytes (b, 0xFF) for b >= 0x80 and
\* (b, 0x00) for b < 0x80, run from the same state.
C22_SignExtendedImmediate ==
    [][ (/\ Executed({"AddIRm"})
         /\ ModOf(file[ip + 2]) = 3
         /\ b0 % 4 = 3)
        => /\ \A r \in WordRegs :
                 get(memory', r) = get(AfterWideEncoding.memory, r)
           /\ memory'.flags = AfterWideEncoding.memory.flags
           /\ status' = AfterWideEncoding.status
           /\ memory'.ip + 1 = AfterWideEncoding.memory.ip
      ]_vars

\* add ax, -1 in the s=1 encoding (83 C0 FF) ran on AX = 1 and left AX = 0
\* with Zero set, as 81 C0 FF FF does
C22_Witness ==
    /\ last.op = "AddIRm" /\ last.bytes = <<131, 192, 255>>
    /\ status = "running"
    /\ get(memory, "AX") = 0
    /\ get_flag(memory, Flag.Zero)

\* C23: an instruction with a memory operand (a mode byte with mod 00, 01
\* or 10 in any class that has one, MOV accumulator<->memory) changes
\* nothing but ip: the eight word registers and the flags byte are as
\* before the step.
C23_MemoryOperandsChangeOnlyIp ==
    [][ (\/ /\ Executed(RmROps \cup {"MovIRm", "AddIRm"})
            /\ ModOf(file[ip + 2]) # 3
         \/ Executed({"MovAM", "MovMA"}))
        => /\ RegistersUnchanged
           /\ memory'.flags = memory.flags
           /\ memory' = [memory EXCEPT !.ip = memory'.ip]
           /\ memory'.ip > memory.ip
      ]_vars

\* mov ax, [16] ran with AX = 2 and flags set by an earlier SUB: AX and the
\* flags are as the SUB left them
C23_Witness ==
    /\ last.op = "MovMA" /\ last.bytes = <<161, 16, 0>>
    /\ status = "running"
    /\ get(memory, "AX") = 49154
    /\ memory.flags = Flag.Sign + Flag.Parity

\* the register names the 8086 gives to a 3-bit field: row w of the table
RegName(field, w) ==
    IF w = 1 THEN <<"AX", "CX", "DX", "BX", "SP", "BP", "SI", "DI">>[field + 1]
    ELSE <<"AL", "CL", "DL", "BL", "AH", "CH", "DH", "BH">>[field + 1]

\* C24: in the register<->register form (mod=11) of MOV, ADD, SUB and CMP,
\* d=0 makes the rm register the destination and the reg register the
\* source, d=1 the reverse, both from the table row chosen by w: only the
\* destination's word changes, MOV leaves destination = source, ADD and
\* SUB that complete leave destination = destination +/- source in the
\* operand width, and SUB and CMP that complete leave Sign set exactly
\* when destination - source is negative as an i16.
C24_DirectionBit ==
    [][ (Executed(RmROps) /\ ModOf(file[ip + 2]) = 3) =>
          LET w == b0 % 2
              d == (b0 \div 2) % 2
              rmName == RegName(RmOf(file[ip + 2]), w)
              regName == RegName(RegOf(file[ip + 2]), w)
              dst == IF d = 0 THEN rmName ELSE regName
              src == IF d = 0 THEN regName ELSE rmName
              width == IF w = 1 THEN 65536 ELSE 256
              a == get(memory, dst)
              b == get(memory, src)
          IN  /\ (dst \in WordRegs) <=> (src \in WordRegs)
              /\ \A r \in WordRegs \ {ParentWord(dst)} :
                    get(memory', r) = get(memory, r)
              /\ opcode = "MovRmR" => get(memory', dst) = b
              /\ (opcode = "AddRmR" /\ status' = "running")
                    => get(memory', dst) = (a + b) % width
              /\ (opcode = "SubRmR" /\ status' = "running")
                    => get(memory', dst) = (a - b) % width
              /\ (opcode \in {"SubRmR", "CmpRmR"} /\ status' = "running")
                    => (get_flag(memory', Flag.Sign)
                          <=> AsI16(AsI16(a) - AsI16(b)) < 0)
      ]_vars

\* 89 D8 ran with AX = 1 and BX = 255 loaded: AX := BX
C24_Witness ==
    /\ last.op = "MovRmR" /\ last.bytes = <<137, 216>>
    /\ last.at = 6
    /\ file[1] = 184 /\ file[2] = 1 /\ file[5] = 255
    /\ get(memory, "AX") = 255
    /\ get(memory, "BX") = 255

\* C25: after ADD or SUB with a register destination (RmR form with
\* mod=11, 100000sw with reg=000 or reg=101 and mod=11), byte or word,
\* Zero is set exactly when the destination register reads 0.
C25_ZeroFlagMatchesDestination ==
    [][ (AddRegisterForm \/ SubRegisterForm) =>
          (get_flag(memory', Flag.Zero) <=> (get(memory', DestReg) = 0))
      ]_vars

\* C26: for every immediate-to-register/memory instruction gathered in
\* full, the size handed to process_irm is in 3..6 and passes the
\* assertion of its mode (mod=00: 3, 4 or 5; mod=01: 4; mod=10: 5 or 6;
\* mod=11: 3 or 4).
C26_IrmSizeAssertionsHold ==
    [][ Executed({"MovIRm", "AddIRm"}) =>
          LET size == Len(last'.bytes)
              mode == ModOf(file[ip + 2])
          IN  /\ size >= 3 /\ size <= 6
              /\ mode = 0 => size \in {3, 4, 5}
              /\ mode = 1 => size = 4
              /\ mode = 2 => size \in {5, 6}
              /\ mode = 3 => size \in {3, 4}
      ]_vars

\* C27: in 100000sw the reg field selects the operation: 000 adds, 101
\* subtracts, 111 compares (the flags are those of destination - immediate);
\* any other reg value stops the run as a fatal error with the eight word
\* registers and the flags unchanged.
C27_RegFieldSelectsOperation ==
    [][ Executed({"AddIRm"}) =>
          LET reg == RegOf(file[ip + 2])
              width == IF OperandW = 1 THEN 65536 ELSE 256
              a == get(memory, DestReg)
              done == ModOf(file[ip + 2]) = 3 /\ status' = "running"
          IN  /\ reg \notin {0, 5, 7} =>
                    /\ status' = "panic"
                    /\ RegistersUnchanged
                    /\ memory'.flags = memory.flags
              /\ (reg = 0 /\ done) =>
                    get(memory', DestReg) = (a + ImmOperand) % width
              /\ (reg = 5 /\ done) =>
                    get(memory', DestReg) = (a - ImmOperand) % width
              /\ (reg = 7 /\ done) =>
                    memory'.flags =
                       set_flags_from_result(memory,
                           AsI16(AsI16(a) - ImmOperand)).flags
      ]_vars

\* 81 C8 02 00 (reg = 001) on AX = 0x1234: the run stopped, AX as loaded
C27_Witness ==
    /\ status = "panic"
    /\ last.op = "AddIRm" /\ last.bytes = <<129, 200, 2, 0>>
    /\ get(memory, "AX") = 4660
    /\ memory.flags = 0

(***************************************************************************)
(* The opcode table on its own (opcodes.rs): the initialiser inserts the   *)
(* patterns in order into an empty trie, then first bytes are looked up.   *)
(***************************************************************************)
InitTable ==
    /\ file = <<>>
    /\ memory = NewRegisterFile
    /\ status = "running"
    /\ build = "debug"
    /\ last = NoInstr
    /\ steps = 0
    /\ jumped = "none"
    /\ bit_trie = EmptyTrie
    /\ inserted = <<>>
    /\ pos = 0

TableInsert ==
    /\ Len(inserted) < Len(OpcodePatterns)
    /\ LET p == OpcodePatterns[Len(inserted) + 1]
       IN  /\ bit_trie' = insert(bit_trie, p[1], p[2], p[3])
           /\ inserted' = Append(inserted, p)
           /\ last' = [op |-> "insert", byte |-> p[1], result |-> NoMatch]
    /\ UNCHANGED <<file, memory, status, build, steps, jumped, pos>>

TableLookup(byte) ==
    /\ Len(inserted) = Len(OpcodePatterns)
    /\ last' = [op |-> "match_bits", byte |-> byte,
                result |-> match_bits(bit_trie, byte)]
    /\ UNCHANGED <<file, memory, status, build, steps, jumped, bit_trie, inserted, pos>>

NextTable ==
    \/ TableInsert
    \/ \E byte \in 0..255 : TableLookup(byte)

SpecTable == InitTable /\ [][NextTable]_vars

\* inserted pattern p is a proper prefix of inserted pattern q
ProperPrefix(p, q) ==
    /\ p[2] < q[2]
    /\ (q[1] % Pow2(q[2])) \div Pow2(q[2] - p[2]) = p[1] % Pow2(p[2])

\* what a longest-match lookup would return
LongestMatch(byte) ==
    IF PrefixesOf(byte) = {} THEN NoMatch
    ELSE LET i == CHOOSE k \in PrefixesOf(byte) :
                     \A j \in PrefixesOf(byte) : inserted[j][2] <= inserted[k][2]
         IN  [val |-> inserted[LatestOf(i)][3], len |-> inserted[i][2]]

\* C28: no pattern of the opcode table is a proper prefix of another, so
\* at most one pattern is a prefix of any first byte and the class that
\* match_bits returns (the one the main loop uses) is the class a
\* longest-match lookup would return.
C28_OpcodeTableIsPrefixFree ==
    /\ \A i, j \in 1..Len(inserted) : ~ProperPrefix(inserted[i], inserted[j])
    /\ last.op = "match_bits" =>
          /\ Cardinality(PrefixesOf(last.byte)) <= 1
          /\ last.result = LongestMatch(last.byte)
          /\ last.result.val = OpcodeTable[last.byte]

\* the finished table was asked for B0 and answered MovIR on 4 bits
C28_Witness ==
    /\ inserted = OpcodePatterns
    /\ bit_trie = OPCODE_TRIE
    /\ last.op = "match_bits" /\ last.byte = 176
    /\ last.result = [val |-> "MovIR", len |-> 4]

\* C29: as long as no JNE was executed with Zero clear, every executed
\* instruction is fetched where the previous one ended (the first at 0),
\* that is at the sum of the lengths executed so far, and moves ip forward
\* by its length, between 2 and 6; so at most Len(file) / 2 instructions
\* are executed, and the loop has ended normally only with ip at or past
\* the end of the buffer.
C29_StraightRunsAdvance ==
    /\ [][ (Executed(AllOps) /\ jumped' = "none") =>
              /\ last'.at = ip
              /\ ip = (IF last.op = NoneVal THEN 0
                       ELSE last.at + Len(last.bytes))
              /\ memory'.ip = ip + Len(last'.bytes)
              /\ memory'.ip - ip \in 2..6
         ]_vars
    /\ [](jumped = "none" =>
              /\ 2 * steps <= Len(file)
              /\ status = "done" => memory.ip >= Len(file))

\* cmp ax, bx set Zero, the JNE after it was not taken, a third instruction
\* ran and the loop ended at the end of the buffer
C29_Witness ==
    /\ status = "done"
    /\ jumped = "none"
    /\ steps = 3
    /\ file[3] = 117
    /\ get_flag(memory, Flag.Zero)
    /\ memory.ip = Len(file)

(***************************************************************************)
(* The ep02 decoder (ep02/src/main.rs): MOV only, no register file; a      *)
(* Reader hands out the buffer byte by byte and the handlers print.        *)
(***************************************************************************)
ep02_OpcodePatterns == <<
    <<34, 6, "MovRmR">>, <<11, 4, "MovIR">>, <<99, 7, "MovIRm">>,
    <<81, 7, "MovAM">>, <<80, 7, "MovMA">> >>

ep02_OPCODE_TRIE == InsertAll(EmptyTrie, ep02_OpcodePatterns, 1)

ep02_OpcodeTable == [b \in 0..255 |-> match_bits(ep02_OPCODE_TRIE, b).val]

\* the handlers return how the run goes on: "running", or "panic" when an
\* assert! fails or with_sign overflows under overflow checks
ep02_process_mov_ma(bytes, size) ==
    IF size # 3 THEN "panic" ELSE "running"

ep02_process_mov_am(bytes, size) ==
    IF size # 3 THEN "panic" ELSE "running"

ep02_process_mov_irm(bytes, size, bld) ==
    LET mode == bytes[2] \div 64
    IN  IF ~(size >= 3 /\ size <= 6) THEN "panic"
        ELSE CASE mode = 0 ->
                    IF ~(size = 4 \/ size = 3) THEN "panic" ELSE "running"
               [] mode = 1 ->
                    IF size # 4 THEN "panic" ELSE "running"
               [] mode = 2 ->
                    IF size # 6 THEN "panic"
                    ELSE IF with_sign_panics(Word16(bytes[4], bytes[3]), bld)
                    THEN "panic"
                    ELSE "running"
               [] mode = 3 ->
                    IF size # 3 THEN "panic" ELSE "running"

ep02_process_mov_ir(bytes, size) ==
    IF ~(size = 3 \/ size = 4) THEN "panic" ELSE "running"

ep02_process_mov_rmr(bytes, size, bld) ==
    LET mode == bytes[2] \div 64
    IN  IF ~(size >= 2 /\ size <= 4) THEN "panic"
        ELSE CASE mode = 0 -> "running"
               [] mode = 1 -> IF size # 3 THEN "panic" ELSE "running"
               [] mode = 2 ->
                    IF size # 4 THEN "panic"
                    ELSE IF with_sign_panics(Word16(bytes[4], bytes[3]), bld)
                    THEN "panic"
                    ELSE "running"
               [] mode = 3 -> "running"

\* lengths gathered by the arms of ep02's main
ep02_MovRmRLen(f1) ==
    LET mode == f1 \div 64
        displacement_registers ==
            IF mode = 3 THEN 0
            ELSE IF mode = 0 /\ f1 % 8 = 6 THEN 2 ELSE mode
    IN  2 + displacement_registers

ep02_MovIRLen(f0) == 1 + ((f0 \div 8) % 2) + 1

ep02_MovIRmLen(f0, f1) ==
    LET w == f0 % 2
        mode == f1 \div 64
        displacement_registers == IF mode = 3 THEN 0 ELSE mode
    IN  2 + displacement_registers + (w + 1)

Ep02ModeByteFirst ==
    {b \in 0..255 : ep02_OpcodeTable[b] \in {"MovRmR", "MovIRm"}}

Ep02Files ==
    {<<f0, f1>> \o t : f0 \in Ep02ModeByteFirst, f1 \in 0..255, t \in Tails}
    \cup {<<f0>> \o t : f0 \in 0..255, t \in Tails}
    \cup TruncFiles

InitEp02 ==
    /\ file \in Ep02Files
    /\ memory = NewRegisterFile
    /\ status = "running"
    /\ build \in {"debug", "release"}
    /\ last = NoInstr
    /\ steps = 0
    /\ jumped = "none"
    /\ bit_trie = ep02_OPCODE_TRIE
    /\ inserted = ep02_OpcodePatterns
    /\ pos = 0

\* Reader::next returned a byte: the loop body runs on it
Ep02Fetching == status = "running" /\ pos < Len(file)

ep02_b0 == file[pos + 1]

ep02_opcode == ep02_OpcodeTable[ep02_b0]

Ep02Avail(n) == pos + n <= Len(file)

\* next_or_exit ran out of bytes: every byte was consumed before the exit
Ep02Truncated ==
    /\ status' = "truncated"
    /\ pos' = Len(file)
    /\ UNCHANGED <<file, memory, build, last, steps, jumped, bit_trie, inserted>>

Ep02Handled(n, out) ==
    /\ status' = out
    /\ pos' = pos + n
    /\ last' = [op |-> ep02_opcode, at |-> pos,
                bytes |-> SubSeq(file, pos + 1, pos + n)]
    /\ UNCHANGED <<file, memory, build, steps, jumped, bit_trie, inserted>>

\* Reader::next returned None
Ep02Halt ==
    /\ status = "running"
    /\ pos >= Len(file)
    /\ status' = "done"
    /\ UNCHANGED <<file, memory, build, last, steps, jumped, bit_trie, inserted, pos>>

Ep02UnknownOpcode ==
    /\ Ep02Fetching
    /\ ep02_opcode = NoneVal
    /\ status' = "unknown_opcode"
    /\ pos' = pos + 1
    /\ UNCHANGED <<file, memory, build, last, steps, jumped, bit_trie, inserted>>

Ep02StepMovMA ==
    /\ Ep02Fetching
    /\ ep02_opcode = "MovMA"
    /\ IF ~Ep02Avail(3) THEN Ep02Truncated
       ELSE Ep02Handled(3, ep02_process_mov_ma(SubSeq(file, pos + 1, pos + 3), 3))

Ep02StepMovAM ==
    /\ Ep02Fetching
    /\ ep02_opcode = "MovAM"
    /\ IF ~Ep02Avail(3) THEN Ep02Truncated
       ELSE Ep02Handled(3, ep02_process_mov_am(SubSeq(file, pos + 1, pos + 3), 3))

Ep02StepMovRmR ==
    /\ Ep02Fetching
    /\ ep02_opcode = "MovRmR"
    /\ IF ~Ep02Avail(2) THEN Ep02Truncated
       ELSE LET n == ep02_MovRmRLen(file[pos + 2])
            IN  IF ~Ep02Avail(n) THEN Ep02Truncated
                ELSE Ep02Handled(n, ep02_process_mov_rmr(
                                        SubSeq(file, pos + 1, pos + n), n, build))

Ep02StepMovIR ==
    /\ Ep02Fetching
    /\ ep02_opcode = "MovIR"
    /\ LET n == ep02_MovIRLen(ep02_b0)
       IN  IF ~Ep02Avail(n) THEN Ep02Truncated
           ELSE Ep02Handled(n, ep02_process_mov_ir(
                                   SubSeq(file, pos + 1, pos + n), n))

Ep02StepMovIRm ==
    /\ Ep02Fetching
    /\ ep02_opcode = "MovIRm"
    /\ IF ~Ep02Avail(2) THEN Ep02Truncated
       ELSE LET n == ep02_MovIRmLen(ep02_b0, file[pos + 2])
            IN  IF ~Ep02Avail(n) THEN Ep02Truncated
                ELSE Ep02Handled(n, ep02_process_mov_irm(
                                        SubSeq(file, pos + 1, pos + n), n, build))

NextEp02 ==
    \/ Ep02Halt
    \/ Ep02UnknownOpcode
    \/ Ep02StepMovMA
    \/ Ep02StepMovAM
    \/ Ep02StepMovRmR
    \/ Ep02StepMovIR
    \/ Ep02StepMovIRm

SpecEp02 == InitEp02 /\ [][NextEp02]_vars

\* the instruction at pos was gathered in full and handed to its handler
Ep02Executed(ops) ==
    /\ Ep02Fetching
    /\ ep02_opcode \in ops
    /\ status' # "truncated"
    /\ last'.at = pos

\* C30: in the ep02 decoder every MOV gathered in full passes the size
\* assertion of its handler: process_mov_ir takes the w=0 and the w=1
\* length, process_mov_irm the length gathered for each mod and w, and
\* process_mov_rmr, process_mov_ma and process_mov_am theirs.
C30_Ep02SizeAssertionsHold ==
    [][ Ep02Executed({"MovRmR", "MovIR", "MovIRm", "MovAM", "MovMA"}) =>
          LET size == Len(last'.bytes)
              mode == ModOf(file[pos + 2])
          IN  /\ ep02_opcode = "MovIR" => size \in {3, 4}
              /\ ep02_opcode \in {"MovAM", "MovMA"} => size = 3
              /\ ep02_opcode = "MovRmR" =>
                    /\ size \in 2..4
                    /\ mode = 1 => size = 3
                    /\ mode = 2 => size = 4
              /\ ep02_opcode = "MovIRm" =>
                    /\ size \in 3..6
                    /\ mode = 0 => size \in {3, 4}
                    /\ mode = 1 => size = 4
                    /\ mode = 2 => size = 6
                    /\ mode = 3 => size = 3
      ]_vars

====
